---------------------------- MODULE Spec2Model ----------------------------
(***************************************************************************)
(* Model of cmd/crictl/image.go: the four image subcommands of crictl      *)
(* (pull, images, inspecti, rmi), the image service they call, and the     *)
(* helpers parseCreds, normalizeRepoTagPair, normalizeRepoDigest and       *)
(* imageByRef.Less.                                                        *)
(*                                                                         *)
(* Go strings are sequences of one-character strings, so that splitting,   *)
(* indexing and comparing them is computed and not assumed.  Format        *)
(* strings and flag values that the code only compares with literals are   *)
(* TLA+ strings.  The byte size, uid and username of an image are only     *)
(* printed and are left out of the Image record.                           *)
(***************************************************************************)
EXTENDS Integers, Sequences, FiniteSets, TLC

VARIABLES cmd, args, flags, pc, connected, i, auth, r, err, trace

vars == <<cmd, args, flags, pc, connected, i, auth, r, err, trace>>

(***************************************************************************)
(* Bounds                                                                  *)
(***************************************************************************)
MaxCredLen == 4     \* longest --creds value
MaxStrLen == 3      \* longest repository-tag / repository-digest string
MaxTags == 2        \* longest RepoTags / RepoDigests list of one image
MaxImages == 3      \* longest list returned by ListImages
MaxArgs == 2        \* most positional arguments of inspecti / rmi

(***************************************************************************)
(* Strings                                                                 *)
(***************************************************************************)
\* the characters used, in byte order
Alphabet == <<"0", "1", "2", "3", "4", "5", "6", ":", "@", "a", "b", "c", "d", "e", "f", "h", "s">>

Ord(c) == CHOOSE n \in 1..Len(Alphabet) : Alphabet[n] = c

Min(a, b) == IF a < b THEN a ELSE b

\* s < t on Go strings: bytewise lexicographic
StrLess(s, t) ==
    \E k \in 1..(Min(Len(s), Len(t)) + 1) :
        /\ \A j \in 1..(k - 1) : s[j] = t[j]
        /\ \/ k > Len(s) /\ k <= Len(t)
           \/ k <= Len(s) /\ k <= Len(t) /\ Ord(s[k]) < Ord(t[k])

\* all strings over chars of length at most n
StringsUpTo(chars, n) == UNION {[1..k -> chars] : k \in 0..n}

\* strings.Index with a one-byte separator; 1-based, 0 when absent
Index(s, c) ==
    IF \E k \in 1..Len(s) : s[k] = c
    THEN CHOOSE k \in 1..Len(s) : s[k] = c /\ \A j \in 1..(k - 1) : s[j] # c
    ELSE 0

\* strings.LastIndex with a one-byte separator; 1-based, 0 when absent
LastIndex(s, c) ==
    IF \E k \in 1..Len(s) : s[k] = c
    THEN CHOOSE k \in 1..Len(s) : s[k] = c /\ \A j \in (k + 1)..Len(s) : s[j] # c
    ELSE 0

RECURSIVE SplitN(_, _, _)
\* strings.SplitN(s, sep, n) for n > 0: at most n parts, the last unsplit
SplitN(s, sep, n) ==
    LET k == Index(s, sep) IN
    IF n = 1 \/ k = 0 THEN <<s>>
    ELSE <<SubSeq(s, 1, k - 1)>> \o SplitN(SubSeq(s, k + 1, Len(s)), sep, n - 1)

RECURSIVE Split(_, _)
\* strings.Split(s, sep): every part
Split(s, sep) ==
    LET k == Index(s, sep) IN
    IF k = 0 THEN <<s>>
    ELSE <<SubSeq(s, 1, k - 1)>> \o Split(SubSeq(s, k + 1, Len(s)), sep)

\* strings.TrimPrefix
TrimPrefix(s, prefix) ==
    IF Len(s) >= Len(prefix) /\ SubSeq(s, 1, Len(prefix)) = prefix
    THEN SubSeq(s, Len(prefix) + 1, Len(s))
    ELSE s

\* literals of the source, as character sequences
NoneStr == <<"<", "n", "o", "n", "e", ">">>
ErrorRepoTag == <<"e", "r", "r", "o", "r", "R", "e", "p", "o", "T", "a", "g">>
ErrorName == <<"e", "r", "r", "o", "r", "N", "a", "m", "e">>
ErrorRepoDigest == <<"e", "r", "r", "o", "r", "R", "e", "p", "o", "D", "i", "g", "e", "s", "t">>
Sha256Prefix == <<"s", "h", "a", "2", "5", "6", ":">>
truncatedIDLen == 12

Nil == [nil |-> TRUE]
NoErr == ""

(***************************************************************************)
(* Pure helpers of image.go                                                *)
(***************************************************************************)
\* imageByRef.Less on two images
Less(x, y) ==
    IF Len(x.RepoTags) > 0 /\ Len(y.RepoTags) > 0
    THEN StrLess(x.RepoTags[1], y.RepoTags[1])
    ELSE IF Len(x.RepoDigests) > 0 /\ Len(y.RepoDigests) > 0
    THEN StrLess(x.RepoDigests[1], y.RepoDigests[1])
    ELSE StrLess(x.Id, y.Id)

\* imageByRef.Swap
Swap(a, m, n) == [a EXCEPT ![m] = a[n], ![n] = a[m]]

RECURSIVE SiftDown(_, _)
\* inner loop of the insertion sort: move a[j] left while it is Less
SiftDown(a, j) ==
    IF j > 1 /\ Less(a[j], a[j - 1])
    THEN SiftDown(Swap(a, j, j - 1), j - 1)
    ELSE a

RECURSIVE SortFrom(_, _)
SortFrom(a, k) ==
    IF k > Len(a) THEN a ELSE SortFrom(SiftDown(a, k), k + 1)

\* sort.Sort(imageByRef(a)): an insertion sort for the short lists modelled
Sort(a) == SortFrom(a, 2)

\* parseCreds splitting at every colon: the password stops at the second one
parseCreds_SplitAll(creds) ==
    IF creds = <<>>
    THEN [username |-> <<>>, password |-> <<>>, err |-> "credentials can't be empty"]
    ELSE LET up == Split(creds, ":") IN
         IF Len(up) = 1
         THEN [username |-> up[1], password |-> <<>>, err |-> NoErr]
         ELSE IF up[1] = <<>>
         THEN [username |-> <<>>, password |-> <<>>, err |-> "username can't be empty"]
         ELSE [username |-> up[1], password |-> up[2], err |-> NoErr]

\* parseCreds: (username, password, error)
parseCreds(creds) ==
    IF creds = <<>>
    THEN [username |-> <<>>, password |-> <<>>, err |-> "credentials can't be empty"]
    ELSE LET up == SplitN(creds, ":", 2) IN
         IF Len(up) = 1
         THEN [username |-> up[1], password |-> <<>>, err |-> NoErr]
         ELSE IF up[1] = <<>>
         THEN [username |-> <<>>, password |-> <<>>, err |-> "username can't be empty"]
         ELSE [username |-> up[1], password |-> up[2], err |-> NoErr]

\* getAuth dropping the error of parseCreds
getAuth_IgnoreErr(creds) ==
    LET p == parseCreds(creds) IN
    [auth |-> [Username |-> p.username, Password |-> p.password], err |-> NoErr]

\* getAuth: (AuthConfig or nil, error)
getAuth(creds) ==
    LET p == parseCreds(creds) IN
    IF p.err # NoErr
    THEN [auth |-> Nil, err |-> p.err]
    ELSE [auth |-> [Username |-> p.username, Password |-> p.password], err |-> NoErr]

\* the loop body splitting at the first colon instead of the last
RepoTagPair_FirstColon(repoTag) ==
    LET idx == Index(repoTag, ":") IN
    IF idx = 0
    THEN <<ErrorRepoTag, ErrorRepoTag>>
    ELSE <<SubSeq(repoTag, 1, idx - 1), SubSeq(repoTag, idx + 1, Len(repoTag))>>

\* one iteration of the loop of normalizeRepoTagPair
RepoTagPair(repoTag) ==
    LET idx == LastIndex(repoTag, ":") IN
    IF idx = 0
    THEN <<ErrorRepoTag, ErrorRepoTag>>
    ELSE <<SubSeq(repoTag, 1, idx - 1), SubSeq(repoTag, idx + 1, Len(repoTag))>>

normalizeRepoTagPair(repoTags, imageName) ==
    IF Len(repoTags) = 0
    THEN <<<<imageName, NoneStr>>>>
    ELSE [k \in 1..Len(repoTags) |-> RepoTagPair(repoTags[k])]

\* normalizeRepoDigest splitting at the first "@" only
normalizeRepoDigest_SplitN(repoDigests) ==
    IF Len(repoDigests) = 0
    THEN <<NoneStr, NoneStr>>
    ELSE LET repoDigestPair == SplitN(repoDigests[1], "@", 2) IN
         IF Len(repoDigestPair) # 2
         THEN <<ErrorName, ErrorRepoDigest>>
         ELSE <<repoDigestPair[1], repoDigestPair[2]>>

normalizeRepoDigest(repoDigests) ==
    IF Len(repoDigests) = 0
    THEN <<NoneStr, NoneStr>>
    ELSE LET repoDigestPair == Split(repoDigests[1], "@") IN
         IF Len(repoDigestPair) # 2
         THEN <<ErrorName, ErrorRepoDigest>>
         ELSE <<repoDigestPair[1], repoDigestPair[2]>>


(***************************************************************************)
(* Command line, events and output                                         *)
(***************************************************************************)
DefaultFlags ==
    [credsSet |-> FALSE, creds |-> <<>>, output |-> "", quiet |-> FALSE,
     verbose |-> FALSE, digests |-> FALSE, noTrunc |-> FALSE]

\* context.Args().First(): "" when there is no argument
First(a) == IF Len(a) = 0 THEN <<>> ELSE a[1]

\* context.NArg()
NArg == Len(args)

\* fmt.Printf / fmt.Fprintf of one line
Printf(format, a) == [ev |-> "Print", fmt |-> format, args |-> a]

\* outputProtobufObjAsJSON / outputProtobufObjAsYAML / outputStatusInfo
PrintObj(format, obj) == [ev |-> "PrintObj", fmt |-> format, obj |-> obj]

\* a request sent to the image service, for the k-th argument
Request(op, k, image, extra) ==
    [ev |-> "Request", op |-> op, k |-> k, image |-> image, extra |-> extra]

\* the answer of the image service
Response(op, k, ok, obj) ==
    [ev |-> "Response", op |-> op, k |-> k, ok |-> ok, obj |-> obj]

ShowSubcommandHelp == [ev |-> "Help"]

\* the command returns: error e (NoErr for nil) after the events evs
Return(e, evs) ==
    /\ pc' = "done"
    /\ err' = e
    /\ trace' = trace \o evs

(***************************************************************************)
(* pull                                                                    *)
(***************************************************************************)
CredChars == {":", "a", "b"}

PullFlags ==
    {DefaultFlags} \cup
    {[DefaultFlags EXCEPT !.credsSet = TRUE, !.creds = c] :
        c \in StringsUpTo(CredChars, MaxCredLen)}

PullArgs == {<<>>, << <<>> >>, << <<"a">> >>}

\* the canonical references the service may answer a pull with
PullRefs == {<<"a">>, <<"a", "@", "1">>}

InitPull ==
    /\ cmd = "pull"
    /\ args \in PullArgs
    /\ flags \in PullFlags
    /\ pc = "start"
    /\ connected = FALSE
    /\ i = 0
    /\ auth = Nil
    /\ r = Nil
    /\ err = NoErr
    /\ trace = <<>>

\* pullImageCommand.Action up to the call of PullImage
PullStart ==
    /\ cmd = "pull" /\ pc = "start"
    /\ UNCHANGED <<cmd, args, flags, i, r>>
    /\ IF First(args) = <<>>
       THEN /\ Return(NoErr, <<ShowSubcommandHelp>>)
            /\ UNCHANGED <<connected, auth>>
       ELSE \E clientOk \in BOOLEAN :
            IF ~clientOk
            THEN /\ Return("getImageClient failed", <<>>)
                 /\ UNCHANGED <<connected, auth>>
            ELSE /\ connected' = TRUE
                 /\ IF flags.credsSet
                    THEN LET a == getAuth(flags.creds) IN
                         IF a.err # NoErr
                         THEN /\ Return(a.err, <<>>)
                              /\ UNCHANGED auth
                         ELSE /\ auth' = a.auth
                              /\ pc' = "pull"
                              /\ UNCHANGED <<err, trace>>
                    ELSE /\ pc' = "pull"
                         /\ UNCHANGED <<auth, err, trace>>

\* PullImage: build the request and send it
PullImage ==
    /\ cmd = "pull" /\ pc = "pull"
    /\ trace' = trace \o <<Request("PullImage", 1, First(args), auth)>>
    /\ pc' = "pull_wait"
    /\ UNCHANGED <<cmd, args, flags, connected, i, auth, r, err>>

\* the service answers the pull; the command prints the reference or fails
PullImageReturn ==
    /\ cmd = "pull" /\ pc = "pull_wait"
    /\ UNCHANGED <<cmd, args, flags, connected, i, auth>>
    /\ \/ /\ Return("pulling image failed: %v",
                    <<Response("PullImage", 1, FALSE, Nil)>>)
          /\ UNCHANGED r
       \/ \E ref \in PullRefs :
             /\ r' = [ImageRef |-> ref]
             /\ Return(NoErr,
                       <<Response("PullImage", 1, TRUE, [ImageRef |-> ref]),
                         Printf("Image is up to date for %s\n", <<ref>>)>>)

NextPull == PullStart \/ PullImage \/ PullImageReturn

SpecPull == InitPull /\ [][NextPull]_vars

(***************************************************************************)
(* images                                                                  *)
(***************************************************************************)
\* all sequences over S of length at most n
SeqsUpTo(S, n) == UNION {[1..k -> S] : k \in 0..n}

Image(id, repoTags, repoDigests) ==
    [Id |-> id, RepoTags |-> repoTags, RepoDigests |-> repoDigests]

\* images that differ in every key of the comparison
SortIds == {<<Alphabet[k + 1]>> : k \in 1..MaxImages}

SortImages ==
    {Image(id, t, d) :
        id \in SortIds,
        t \in {<<>>, << <<"a", ":", "1">> >>, << <<"b", ":", "1">> >>},
        d \in {<<>>, << <<"c", "@", "1">> >>}}

\* lists of images with distinct identifiers
SortLists ==
    {l \in SeqsUpTo(SortImages, MaxImages) :
        \A m, n \in 1..Len(l) : m # n => l[m].Id # l[n].Id}

LongId == Sha256Prefix \o <<"0", "1", "2", "3", "4", "5", "6", "a", "b", "c", "d", "e", "f">>

TagStrs == StringsUpTo({":", "a"}, MaxStrLen)

DigestStrs == StringsUpTo({"@", "a"}, MaxStrLen)

\* single images with every shape of tag list, or every shape of digest list
RichImages ==
    {Image(<<"1">>, t, d) :
        t \in SeqsUpTo(TagStrs, MaxTags),
        d \in {<<>>, << <<"a", "@", "b">> >>, << <<"a">> >>}}
    \cup
    {Image(LongId, t, d) :
        t \in {<<>>, << <<"a", ":", "b">> >>},
        d \in SeqsUpTo(DigestStrs, MaxTags)}

\* what ListImages may answer
ListResponses == {<<im>> : im \in RichImages} \cup SortLists

ImagesFlags ==
    {DefaultFlags,
     [DefaultFlags EXCEPT !.digests = TRUE],
     [DefaultFlags EXCEPT !.noTrunc = TRUE],
     [DefaultFlags EXCEPT !.digests = TRUE, !.noTrunc = TRUE],
     [DefaultFlags EXCEPT !.verbose = TRUE],
     [DefaultFlags EXCEPT !.quiet = TRUE],
     [DefaultFlags EXCEPT !.quiet = TRUE, !.verbose = TRUE],
     [DefaultFlags EXCEPT !.output = "table", !.digests = TRUE],
     [DefaultFlags EXCEPT !.output = "json"],
     [DefaultFlags EXCEPT !.output = "yaml", !.quiet = TRUE]}

InitImages ==
    /\ cmd = "images"
    /\ \/ args = <<>> /\ flags \in ImagesFlags
       \/ args = << <<"a">> >> /\ flags = DefaultFlags
    /\ pc = "start"
    /\ connected = FALSE
    /\ i = 0
    /\ auth = Nil
    /\ r = Nil
    /\ err = NoErr
    /\ trace = <<>>

\* the IMAGE ID column
DisplayId(id, noTrunc) ==
    IF noTrunc THEN id
    ELSE LET t == TrimPrefix(id, Sha256Prefix) IN
         IF Len(t) > truncatedIDLen THEN SubSeq(t, 1, truncatedIDLen) ELSE t

\* the rows of one image in the table (the SIZE column is not modelled)
TableRows(image, f) ==
    LET nd == normalizeRepoDigest(image.RepoDigests)
        imageName == nd[1]
        repoDigest == nd[2]
        repoTagPairs == normalizeRepoTagPair(image.RepoTags, imageName)
        id == DisplayId(image.Id, f.noTrunc)
    IN  [k \in 1..Len(repoTagPairs) |->
            IF f.digests
            THEN Printf("%s\t%s\t%s\t%s\t%s\n",
                        <<repoTagPairs[k][1], repoTagPairs[k][2], repoDigest, id>>)
            ELSE Printf("%s\t%s\t%s\t%s\n",
                        <<repoTagPairs[k][1], repoTagPairs[k][2], id>>)]

\* the block of one image under --verbose
VerboseBlock(image) ==
    <<Printf("ID: %s\n", <<image.Id>>)>>
    \o [k \in 1..Len(image.RepoTags) |-> Printf("RepoTags: %s\n", <<image.RepoTags[k]>>)]
    \o [k \in 1..Len(image.RepoDigests) |->
            Printf("RepoDigests: %s\n", <<image.RepoDigests[k]>>)]

\* the body of the loop over r.Images
ImageLines(image, f) ==
    IF f.quiet THEN <<Printf("%s\n", <<image.Id>>)>>
    ELSE IF ~f.verbose THEN TableRows(image, f)
    ELSE VerboseBlock(image)

RECURSIVE AllLines(_, _)
AllLines(images, f) ==
    IF Len(images) = 0 THEN <<>>
    ELSE ImageLines(Head(images), f) \o AllLines(Tail(images), f)

TableHeader(f) ==
    IF ~f.verbose /\ ~f.quiet
    THEN IF f.digests
         THEN <<Printf("IMAGE\tTAG\tDIGEST\tIMAGE ID\tSIZE", <<>>)>>
         ELSE <<Printf("IMAGE\tTAG\tIMAGE ID\tSIZE", <<>>)>>
    ELSE <<>>

\* everything listImageCommand.Action prints for the sorted images
ImagesOutput(images, f) ==
    IF f.output \in {"json", "yaml"}
    THEN <<PrintObj(f.output, images)>>
    ELSE TableHeader(f) \o AllLines(images, f)

\* listImageCommand.Action up to the call of ListImages
ImagesStart ==
    /\ cmd = "images" /\ pc = "start"
    /\ UNCHANGED <<cmd, args, flags, i, auth, r>>
    /\ \E clientOk \in BOOLEAN :
          IF ~clientOk
          THEN /\ Return("getImageClient failed", <<>>)
               /\ UNCHANGED connected
          ELSE /\ connected' = TRUE
               /\ pc' = "list"
               /\ UNCHANGED <<err, trace>>

\* ListImages: build the request and send it
ListImages ==
    /\ cmd = "images" /\ pc = "list"
    /\ trace' = trace \o <<Request("ListImages", 1, First(args), Nil)>>
    /\ pc' = "list_wait"
    /\ UNCHANGED <<cmd, args, flags, connected, i, auth, r, err>>

\* the service answers; the command sorts the images and prints them
ListImagesReturn ==
    /\ cmd = "images" /\ pc = "list_wait"
    /\ UNCHANGED <<cmd, args, flags, connected, i, auth>>
    /\ \/ /\ Return("listing images failed: %v",
                    <<Response("ListImages", 1, FALSE, Nil)>>)
          /\ UNCHANGED r
       \/ \E resp \in ListResponses :
             /\ r' = [Images |-> Sort(resp)]
             /\ Return(NoErr,
                       <<Response("ListImages", 1, TRUE, resp)>>
                       \o ImagesOutput(Sort(resp), flags))

NextImages == ImagesStart \/ ListImages \/ ListImagesReturn

SpecImages == InitImages /\ [][NextImages]_vars

(***************************************************************************)
(* inspecti and rmi                                                        *)
(***************************************************************************)
ArgIds == {<<>>, <<"a">>, <<"b">>}

IdArgs == SeqsUpTo(ArgIds, MaxArgs)

InspectFlags ==
    {[DefaultFlags EXCEPT !.output = o, !.quiet = q] :
        o \in {"", "json", "yaml", "table", "xml"}, q \in BOOLEAN}

\* the images the service may report: without tags, with one, with two
StatusImages ==
    {Image(<<"1">>, <<>>, <<>>),
     Image(<<"2">>, << <<"a", ":", "1">> >>, << <<"a", "@", "1">> >>),
     Image(<<"3">>, << <<"a", ":", "1">>, <<"a", ":", "2">> >>, <<>>)}

\* the well-formed answers of ImageStatus: no image, or an image
StatusResponses ==
    {[Image |-> Nil]} \cup {[Image |-> im] : im \in StatusImages}

InitIds ==
    /\ cmd \in {"inspecti", "rmi"}
    /\ args \in IdArgs
    /\ flags \in IF cmd = "rmi" THEN {DefaultFlags} ELSE InspectFlags
    /\ pc = "start"
    /\ connected = FALSE
    /\ i = 0
    /\ auth = Nil
    /\ r = Nil
    /\ err = NoErr
    /\ trace = <<>>

\* the identifier of the current iteration: context.Args().Get(i)
CurId == args[i + 1]

\* the locals verbose and output of imageStatusCommand.Action
InspectVerbose == ~flags.quiet

InspectOutput == IF flags.output = "" THEN "json" ELSE flags.output

\* the end of an iteration of the loop over the arguments
NextArg ==
    /\ i' = i + 1
    /\ pc' = IF i + 1 < NArg THEN "status" ELSE "done"

\* imageStatusCommand.Action and removeImageCommand.Action up to their loop
IdsStart ==
    /\ cmd \in {"inspecti", "rmi"} /\ pc = "start"
    /\ UNCHANGED <<cmd, args, flags, i, auth, r>>
    /\ IF NArg = 0
       THEN /\ Return(NoErr, <<ShowSubcommandHelp>>)
            /\ UNCHANGED connected
       ELSE \E clientOk \in BOOLEAN :
            IF ~clientOk
            THEN /\ Return("getImageClient failed", <<>>)
                 /\ UNCHANGED connected
            ELSE /\ connected' = TRUE
                 /\ pc' = "status"
                 /\ UNCHANGED <<err, trace>>

\* ImageStatus: build the request and send it
ImageStatus ==
    /\ cmd \in {"inspecti", "rmi"} /\ pc = "status"
    /\ trace' = trace \o
          <<Request("ImageStatus", i + 1, CurId,
                    IF cmd = "rmi" THEN FALSE ELSE InspectVerbose)>>
    /\ pc' = "status_wait"
    /\ UNCHANGED <<cmd, args, flags, connected, i, auth, r, err>>

\* what inspecti prints for one image in table format (the size and the
\* info map are printed without their values)
StatusTable(resp) ==
    <<Printf("ID: %s\n", <<resp.Image.Id>>)>>
    \o [k \in 1..Len(resp.Image.RepoTags) |->
            Printf("Tag: %s\n", <<resp.Image.RepoTags[k]>>)]
    \o [k \in 1..Len(resp.Image.RepoDigests) |->
            Printf("Digest: %s\n", <<resp.Image.RepoDigests[k]>>)]
    \o <<Printf("Size: %s\n", <<>>)>>
    \o (IF InspectVerbose THEN <<Printf("Info: %v\n", <<>>)>> ELSE <<>>)

\* the service answers the status request of inspecti
InspectStatusReturn ==
    /\ cmd = "inspecti" /\ pc = "status_wait"
    /\ UNCHANGED <<cmd, args, flags, connected, auth>>
    /\ \/ /\ Return("image status for %q request failed: %v",
                    <<Response("ImageStatus", i + 1, FALSE, Nil)>>)
          /\ UNCHANGED <<i, r>>
       \/ \E resp \in StatusResponses :
          LET answer == <<Response("ImageStatus", i + 1, TRUE, resp)>> IN
          /\ r' = resp
          /\ IF resp.Image = Nil
             THEN /\ Return("no such image %q present", answer)
                  /\ UNCHANGED i
             ELSE \E marshalOk \in BOOLEAN, outputOk \in BOOLEAN :
                  IF ~marshalOk
                  THEN /\ Return("failed to marshal status to json for %q: %v", answer)
                       /\ UNCHANGED i
                  ELSE IF InspectOutput \in {"json", "yaml"}
                  THEN IF ~outputOk
                       THEN /\ Return("failed to output status for %q: %v", answer)
                            /\ UNCHANGED i
                       ELSE /\ trace' = trace \o answer \o <<PrintObj(InspectOutput, resp)>>
                            /\ NextArg
                            /\ UNCHANGED err
                  ELSE IF InspectOutput = "table"
                  THEN /\ trace' = trace \o answer \o StatusTable(resp)
                       /\ NextArg
                       /\ UNCHANGED err
                  ELSE /\ Return("output option cannot be %s", answer)
                       /\ UNCHANGED i

\* rmi without the check for an absent image
RmiStatusReturn_NoNilCheck ==
    /\ cmd = "rmi" /\ pc = "status_wait"
    /\ UNCHANGED <<cmd, args, flags, connected, i, auth>>
    /\ \/ /\ Return("image status request for %q failed: %v",
                    <<Response("ImageStatus", i + 1, FALSE, Nil)>>)
          /\ UNCHANGED r
       \/ \E status \in StatusResponses :
          /\ r' = status
          /\ trace' = trace \o <<Response("ImageStatus", i + 1, TRUE, status)>>
          /\ pc' = "remove"
          /\ UNCHANGED err

\* the service answers the status request of rmi
RmiStatusReturn ==
    /\ cmd = "rmi" /\ pc = "status_wait"
    /\ UNCHANGED <<cmd, args, flags, connected, i, auth>>
    /\ \/ /\ Return("image status request for %q failed: %v",
                    <<Response("ImageStatus", i + 1, FALSE, Nil)>>)
          /\ UNCHANGED r
       \/ \E status \in StatusResponses :
          LET answer == <<Response("ImageStatus", i + 1, TRUE, status)>> IN
          /\ r' = status
          /\ IF status.Image = Nil
             THEN Return("no such image %s", answer)
             ELSE /\ trace' = trace \o answer
                  /\ pc' = "remove"
                  /\ UNCHANGED err

\* RemoveImage: refuse an empty identifier, else build the request and send it
RemoveImage ==
    /\ cmd = "rmi" /\ pc = "remove"
    /\ UNCHANGED <<cmd, args, flags, connected, i, auth, r>>
    /\ IF CurId = <<>>
       THEN Return("error of removing image %q: %v", <<>>)
       ELSE /\ trace' = trace \o <<Request("RemoveImage", i + 1, CurId, Nil)>>
            /\ pc' = "remove_wait"
            /\ UNCHANGED err

\* only the first repository-tag is reported
DeletedLines_FirstOnly(status) ==
    [k \in 1..Min(1, Len(status.Image.RepoTags)) |->
        Printf("Deleted: %s\n", <<status.Image.RepoTags[k]>>)]

\* the lines printed after a successful removal
DeletedLines(status) ==
    [k \in 1..Len(status.Image.RepoTags) |->
        Printf("Deleted: %s\n", <<status.Image.RepoTags[k]>>)]

\* rmi going on to the next identifier after a failed removal
RemoveImageReturn_Continue ==
    /\ cmd = "rmi" /\ pc = "remove_wait"
    /\ UNCHANGED <<cmd, args, flags, connected, auth, r>>
    /\ \/ /\ trace' = trace \o <<Response("RemoveImage", i + 1, FALSE, Nil)>>
          /\ err' = "error of removing image %q: %v"
          /\ NextArg
       \/ /\ trace' = trace \o <<Response("RemoveImage", i + 1, TRUE, Nil)>>
                      \o DeletedLines(r)
          /\ NextArg
          /\ UNCHANGED err

\* the service answers the remove request
RemoveImageReturn ==
    /\ cmd = "rmi" /\ pc = "remove_wait"
    /\ UNCHANGED <<cmd, args, flags, connected, auth, r>>
    /\ \/ /\ Return("error of removing image %q: %v",
                    <<Response("RemoveImage", i + 1, FALSE, Nil)>>)
          /\ UNCHANGED i
       \/ /\ trace' = trace \o <<Response("RemoveImage", i + 1, TRUE, Nil)>>
                      \o DeletedLines(r)
          /\ NextArg
          /\ UNCHANGED err

NextIds ==
    \/ IdsStart
    \/ ImageStatus
    \/ InspectStatusReturn
    \/ RmiStatusReturn
    \/ RemoveImage
    \/ RemoveImageReturn

SpecIds == InitIds /\ [][NextIds]_vars

(***************************************************************************)
(* Properties                                                              *)
(***************************************************************************)
IsRequest(n, op) == trace[n].ev = "Request" /\ trace[n].op = op

IsResponse(n, op) == trace[n].ev = "Response" /\ trace[n].op = op

IsPrint(n) == trace[n].ev = "Print"

HasChar(str, c) == \E j \in 1..Len(str) : str[j] = c

CountChar(str, c) == Cardinality({j \in 1..Len(str) : str[j] = c})

\* the status lookup of the k-th identifier was answered: no image
AbsentAt(k) ==
    \E n \in 1..Len(trace) :
        /\ IsResponse(n, "ImageStatus") /\ trace[n].k = k
        /\ trace[n].ok /\ trace[n].obj.Image = Nil

\* C1: in rmi, an identifier whose status lookup succeeds without an image
\* makes the command fail with "no such image", and no remove request is
\* ever sent for that identifier.
C1_AbsentImageNotRemoved ==
    cmd = "rmi" =>
        \A k \in 1..NArg :
            AbsentAt(k) =>
                /\ pc = "done"
                /\ err = "no such image %s"
                /\ \A n \in 1..Len(trace) :
                      IsRequest(n, "RemoveImage") => trace[n].k # k

C1_Witness ==
    /\ cmd = "rmi"
    /\ AbsentAt(2)
    /\ \E n \in 1..Len(trace) : IsRequest(n, "RemoveImage") /\ trace[n].k = 1

\* a call of the image service for the k-th identifier failed, or the
\* status lookup reported the image absent
FailedAt(k) ==
    \/ AbsentAt(k)
    \/ \E n \in 1..Len(trace) :
          trace[n].ev = "Response" /\ trace[n].k = k /\ ~trace[n].ok

\* C2: in inspecti and rmi, once the processing of the k-th identifier has
\* failed the command has returned an error and no request exists for a later
\* identifier; the requests were issued in argument order, each for its own
\* argument.
C2_FirstFailureHalts ==
    cmd \in {"inspecti", "rmi"} =>
        /\ \A k \in 1..NArg :
              FailedAt(k) =>
                  /\ pc = "done"
                  /\ err # NoErr
                  /\ \A n \in 1..Len(trace) :
                        trace[n].ev = "Request" => trace[n].k <= k
        /\ (pc = "done" /\ err # NoErr) =>
              \A n \in 1..Len(trace) :
                  trace[n].ev = "Request" => trace[n].k <= i + 1
        /\ \A m, n \in 1..Len(trace) :
              (m < n /\ trace[m].ev = "Request" /\ trace[n].ev = "Request") =>
                  /\ trace[m].k <= trace[n].k
                  /\ trace[m].op = trace[n].op => trace[m].k < trace[n].k
        /\ \A n \in 1..Len(trace) :
              trace[n].ev = "Request" =>
                  /\ trace[n].image = args[trace[n].k]
                  /\ \A k \in 1..(trace[n].k - 1) :
                        \E m \in 1..(n - 1) :
                            IsRequest(m, "ImageStatus") /\ trace[m].k = k

C2_Witness ==
    /\ cmd = "rmi"
    /\ NArg = 2
    /\ \E n \in 1..Len(trace) :
          IsResponse(n, "RemoveImage") /\ trace[n].k = 1 /\ ~trace[n].ok

\* C3: in inspecti, when the command returns the "output option cannot be"
\* error, no status request has been sent to the image service.
C3_OutputValidatedBeforeCall ==
    (cmd = "inspecti" /\ err = "output option cannot be %s") =>
        \A n \in 1..Len(trace) : ~IsRequest(n, "ImageStatus")

\* the --creds values parseCreds rejects, read off the string itself
CredsRejected(str) == Len(str) = 0 \/ str[1] = ":"

\* C4: in pull, when --creds is set and credential parsing rejects its value,
\* no request is sent to the image service, and the command returns the
\* error of the parsing.
C4_BadCredsNoPull ==
    (cmd = "pull" /\ flags.credsSet /\ CredsRejected(flags.creds)) =>
        /\ \A n \in 1..Len(trace) : trace[n].ev # "Request"
        /\ pc # "pull" /\ pc # "pull_wait"
        /\ connected =>
              /\ pc = "done"
              /\ err = IF Len(flags.creds) = 0
                       THEN "credentials can't be empty"
                       ELSE "username can't be empty"

C4_Witness ==
    /\ cmd = "pull" /\ flags.credsSet /\ connected /\ pc = "done"
    /\ flags.creds = <<":", "a">>
    /\ err = "username can't be empty"

\* C7: parseCreds fails iff the string is empty or starts with a colon;
\* otherwise the user name is the text before the first colon and the
\* password everything after it, "" when there is no colon.
C7_ParseCreds ==
    (cmd = "pull" /\ flags.credsSet /\ connected) =>
        LET str == flags.creds IN
        /\ CredsRejected(str) <=> auth = Nil
        /\ CredsRejected(str) =>
              err \in {"credentials can't be empty", "username can't be empty"}
        /\ ~CredsRejected(str) =>
              /\ ~HasChar(auth.Username, ":")
              /\ IF HasChar(str, ":")
                 THEN str = auth.Username \o <<":">> \o auth.Password
                 ELSE str = auth.Username /\ auth.Password = <<>>

C7_Witness ==
    /\ cmd = "pull" /\ flags.credsSet /\ connected
    /\ auth # Nil
    /\ auth.Username = <<"a">>
    /\ auth.Password = <<"b", ":">>

\* images has returned after sorting the answer of the service
ImagesListed == cmd = "images" /\ pc = "done" /\ err = NoErr

\* the list as the service returned it
Returned == trace[2].obj

\* the rearrangements of a list
Rearranged(l) ==
    {[k \in 1..Len(l) |-> l[p[k]]] :
        p \in {q \in [1..Len(l) -> 1..Len(l)] :
                  \A m, n \in 1..Len(l) : m # n => q[m] # q[n]}}

\* C5: the comparison of the images sort is irreflexive and transitive on the
\* images returned, the sorted list has no later element that sorts before an
\* earlier one, and it is the same for every order of the returned list.
C5_SortIsTotalOrder ==
    ImagesListed =>
        LET a == r.Images IN
        /\ \A k \in 1..Len(a) : ~Less(a[k], a[k])
        /\ \A k, m, n \in 1..Len(a) :
              (Less(a[k], a[m]) /\ Less(a[m], a[n])) => Less(a[k], a[n])
        /\ \A m, n \in 1..Len(a) : m < n => ~Less(a[n], a[m])
        /\ \A l \in Rearranged(Returned) : Sort(l) = a

\* both images are compared by the same key and the keys are equal
SamePrimaryKey(x, y) ==
    IF Len(x.RepoTags) > 0 /\ Len(y.RepoTags) > 0
    THEN x.RepoTags[1] = y.RepoTags[1]
    ELSE /\ Len(x.RepoDigests) > 0 /\ Len(y.RepoDigests) > 0
         /\ x.RepoDigests[1] = y.RepoDigests[1]

\* C6: of two images with equal primary keys, the one with the smaller
\* identifier comes first in the sorted list.
C6_TiesBrokenById ==
    ImagesListed =>
        LET a == r.Images IN
        \A m, n \in 1..Len(a) :
            (m < n /\ SamePrimaryKey(a[m], a[n])) => ~StrLess(a[n].Id, a[m].Id)

\* images has printed the table of rows
TablePrinted ==
    /\ ImagesListed
    /\ flags.output \notin {"json", "yaml"}
    /\ ~flags.verbose /\ ~flags.quiet

\* the rows of the table: what follows the request, the answer and the header
Rows == SubSeq(trace, 4, Len(trace))

\* the number of rows an image takes
RowCount(im) == IF Len(im.RepoTags) = 0 THEN 1 ELSE Len(im.RepoTags)

RECURSIVE RowsBefore(_, _)
\* the number of rows of the images before the k-th
RowsBefore(images, k) ==
    IF k <= 1 THEN 0 ELSE RowsBefore(images, k - 1) + RowCount(images[k - 1])

\* C8: normalizeRepoTagPair(T, n) is the one pair (n, "<none>") for an empty
\* T; otherwise one pair for every entry of T, in order: the text before and
\* the text after the last colon, or twice "errorRepoTag" without a colon.
C8_NormalizeRepoTagPair ==
    TablePrinted =>
        /\ Len(Rows) = RowsBefore(r.Images, Len(r.Images) + 1)
        /\ \A k \in 1..Len(r.Images) :
              LET T == r.Images[k].RepoTags
                  name == normalizeRepoDigest(r.Images[k].RepoDigests)[1]
                  off == RowsBefore(r.Images, k)
              IN  IF Len(T) = 0
                  THEN /\ Rows[off + 1].args[1] = name
                       /\ Rows[off + 1].args[2] = NoneStr
                  ELSE \A m \in 1..Len(T) :
                       LET repo == Rows[off + m].args[1]
                           tag == Rows[off + m].args[2]
                       IN  IF HasChar(T[m], ":")
                           THEN /\ T[m] = repo \o <<":">> \o tag
                                /\ ~HasChar(tag, ":")
                           ELSE repo = ErrorRepoTag /\ tag = ErrorRepoTag

C8_Witness ==
    /\ TablePrinted
    /\ Len(r.Images) = 1
    /\ r.Images[1].RepoTags = << <<"a", ":", ":">>, <<"a", "a">> >>
    /\ Rows[1].args[1] = <<"a", ":">>
    /\ Rows[1].args[2] = <<>>
    /\ Rows[2].args[1] = ErrorRepoTag

\* C9: normalizeRepoDigest(D) is ("<none>", "<none>") for an empty D;
\* otherwise the two parts of D[0] around its "@" when it has exactly one,
\* and ("errorName", "errorRepoDigest") when it has none or several.
C9_NormalizeRepoDigest ==
    TablePrinted =>
        \A k \in 1..Len(r.Images) :
            LET D == r.Images[k].RepoDigests
                off == RowsBefore(r.Images, k)
                ExpectedName(name) ==
                    IF Len(D) = 0 THEN name = NoneStr
                    ELSE IF CountChar(D[1], "@") = 1
                    THEN /\ Len(name) < Len(D[1])
                         /\ SubSeq(D[1], 1, Len(name) + 1) = name \o <<"@">>
                    ELSE name = ErrorName
                ExpectedDigest(digest) ==
                    IF Len(D) = 0 THEN digest = NoneStr
                    ELSE IF CountChar(D[1], "@") = 1
                    THEN /\ Len(digest) < Len(D[1])
                         /\ SubSeq(D[1], Len(D[1]) - Len(digest), Len(D[1]))
                               = <<"@">> \o digest
                    ELSE digest = ErrorRepoDigest
            IN  /\ Len(r.Images[k].RepoTags) = 0 =>
                      ExpectedName(Rows[off + 1].args[1])
                /\ flags.digests =>
                      \A m \in 1..RowCount(r.Images[k]) :
                          ExpectedDigest(Rows[off + m].args[3])

C9_Witness ==
    /\ TablePrinted /\ flags.digests
    /\ Len(r.Images) = 1
    /\ Len(r.Images[1].RepoTags) = 0
    /\ r.Images[1].RepoDigests = << <<"a", "@", "a">>, <<"@">> >>
    /\ Rows[1].args[1] = <<"a">>
    /\ Rows[1].args[3] = <<"a">>

\* the answer of the status lookup of the k-th identifier
StatusOf(k) ==
    trace[CHOOSE n \in 1..Len(trace) :
              IsResponse(n, "ImageStatus") /\ trace[n].k = k].obj

\* C10: in rmi the non-verbose status request of an identifier is sent and
\* answered before its remove request is sent; "Deleted" lines are printed
\* only right after a successful removal, one for every repository-tag of the
\* status answer of that identifier, in order; nothing is printed after a
\* failed removal.
C10_StatusThenRemoveThenDeleted ==
    cmd = "rmi" =>
        \A n \in 1..Len(trace) :
            /\ IsRequest(n, "RemoveImage") =>
                  \E a, b \in 1..(n - 1) :
                      /\ a < b
                      /\ IsRequest(a, "ImageStatus") /\ trace[a].k = trace[n].k
                      /\ trace[a].image = trace[n].image
                      /\ trace[a].extra = FALSE
                      /\ IsResponse(b, "ImageStatus") /\ trace[b].k = trace[n].k
                      /\ trace[b].ok
            /\ IsPrint(n) =>
                  /\ trace[n].fmt = "Deleted: %s\n"
                  /\ \E m \in 1..(n - 1) :
                        /\ IsResponse(m, "RemoveImage") /\ trace[m].ok
                        /\ n - m <= Len(StatusOf(trace[m].k).Image.RepoTags)
            /\ (IsResponse(n, "RemoveImage") /\ trace[n].ok) =>
                  LET tags == StatusOf(trace[n].k).Image.RepoTags IN
                  /\ Len(trace) >= n + Len(tags)
                  /\ \A j \in 1..Len(tags) :
                        /\ IsPrint(n + j)
                        /\ trace[n + j].args = <<tags[j]>>
                  /\ Len(trace) > n + Len(tags) => ~IsPrint(n + Len(tags) + 1)
            /\ (IsResponse(n, "RemoveImage") /\ ~trace[n].ok) => n = Len(trace)

C10_Witness ==
    /\ cmd = "rmi" /\ pc = "done" /\ err = NoErr /\ NArg = 2
    /\ Len(StatusOf(1).Image.RepoTags) = 0
    /\ Len(StatusOf(2).Image.RepoTags) = 2
    /\ IsPrint(Len(trace))
    /\ trace[Len(trace)].args = << <<"a", ":", "2">> >>

=============================================================================
